---- MODULE Spec2Model ----
(***************************************************************************)
(* Model of the Pokemon MCP server: the single-tool server (src/server.ts)  *)
(* and the four-tool server (its multi-tool variant).  One tool invocation  *)
(* is followed from its arguments through its upstream HTTP calls to the    *)
(* result it returns.  The upstream API is the environment: it answers      *)
(* every request with any status, any body, or a network failure.           *)
(*                                                                          *)
(* A JavaScript string is a sequence of one-character strings; a text built *)
(* by a template literal is the concatenation of its literal pieces (each   *)
(* one element) and the characters of the interpolated strings.  A JSON     *)
(* value that the code reads without checking is tagged with its type, so   *)
(* that a missing field is a value the model can read.                      *)
(***************************************************************************)
EXTENDS Integers, Sequences, FiniteSets, TLC

VARIABLES tool, args, pc, calls, resps, pokemonData, returned, escaped

vars == <<tool, args, pc, calls, resps, pokemonData, returned, escaped>>

(***************************************************************************)
(* Bounds of the model.                                                     *)
(***************************************************************************)
MaxNameLen == 3
MaxNames == 7
MaxList == 22
MaxLimit == 22
MaxNegLimit == 2
MaxNodes == 3
MaxGeneration == 2

(***************************************************************************)
(* Strings.                                                                 *)
(***************************************************************************)
NameChars == {"a", "M", " "}

Whitespace == {" ", "\t"}

UpperOf == [c \in {"a", "b", "m"} |-> CASE c = "a" -> "A" [] c = "b" -> "B" [] c = "m" -> "M"]

LowerOf == [c \in {"A", "B", "M"} |-> CASE c = "A" -> "a" [] c = "B" -> "b" [] c = "M" -> "m"]

toUpperCase(str) == [i \in 1..Len(str) |-> IF str[i] \in DOMAIN UpperOf THEN UpperOf[str[i]] ELSE str[i]]

toLowerCase(str) == [i \in 1..Len(str) |-> IF str[i] \in DOMAIN LowerOf THEN LowerOf[str[i]] ELSE str[i]]

RECURSIVE SkipWhitespace(_)
SkipWhitespace(str) ==
    IF str # <<>> /\ Head(str) \in Whitespace THEN SkipWhitespace(Tail(str)) ELSE str

\* str.replace(/\s+/g, '-'): every maximal run of whitespace becomes one hyphen.
RECURSIVE replaceWhitespace(_)
replaceWhitespace(str) ==
    IF str = <<>> THEN <<>>
    ELSE IF Head(str) \in Whitespace
         THEN <<"-">> \o replaceWhitespace(SkipWhitespace(Tail(str)))
         ELSE <<Head(str)>> \o replaceWhitespace(Tail(str))

\* str.charAt(0).toUpperCase() + str.slice(1)
capitalize(str) ==
    IF str = <<>> THEN <<>> ELSE toUpperCase(<<Head(str)>>) \o Tail(str)

\* Array.prototype.join
RECURSIVE join(_, _)
join(strs, sep) ==
    IF strs = <<>> THEN <<>>
    ELSE IF Len(strs) = 1 THEN strs[1]
    ELSE strs[1] \o sep \o join(Tail(strs), sep)

\* String.prototype.split, on a one-character separator
RECURSIVE split(_, _)
split(str, sep) ==
    IF \A i \in 1..Len(str) : str[i] # sep THEN <<str>>
    ELSE LET at == CHOOSE i \in 1..Len(str) : str[i] = sep /\ \A j \in 1..(i - 1) : str[j] # sep
         IN  <<SubSeq(str, 1, at - 1)>> \o split(SubSeq(str, at + 1, Len(str)), sep)

\* The index Array.prototype.slice clamps a bound to (negative: from the end).
SliceIndex(len, k) ==
    IF k < 0 THEN (IF len + k < 0 THEN 0 ELSE len + k) ELSE (IF k > len THEN len ELSE k)

\* Faulty variant of slice: the end bound is ignored.
slice_ignoring_end(arr, start, end) ==
    SubSeq(arr, SliceIndex(Len(arr), start) + 1, Len(arr))

\* Array.prototype.slice(start, end), zero-based, end excluded
slice(arr, start, end) ==
    SubSeq(arr, SliceIndex(Len(arr), start) + 1, SliceIndex(Len(arr), end))

\* String.prototype.repeat
RECURSIVE repeat(_, _)
repeat(str, count) == IF count = 0 THEN <<>> ELSE str \o repeat(str, count - 1)

\* " ".repeat(k), as one element, for the widths the table pads to
Spaces ==
    <<" ",
      "  ",
      "   ",
      "    ",
      "     ",
      "      ",
      "       ",
      "        ",
      "         ",
      "          ",
      "           ",
      "            ",
      "             ",
      "              ",
      "               ",
      "                ",
      "                 ",
      "                  ",
      "                   ",
      "                    ">>

\* String.prototype.padEnd, padding with spaces; str is a sequence of characters
padEnd(str, width) ==
    IF Len(str) >= width THEN str ELSE str \o <<Spaces[width - Len(str)]>>

DigitChars == <<"0", "1", "2", "3", "4", "5", "6", "7", "8", "9">>

\* The decimal digits a template literal renders an integer n >= 0 with
RECURSIVE Digits(_)
Digits(n) ==
    IF n < 10 THEN <<DigitChars[n + 1]>> ELSE Digits(n \div 10) \o <<DigitChars[(n % 10) + 1]>>

RECURSIVE StringsUpTo(_)
StringsUpTo(n) ==
    IF n = 0 THEN {<<>>}
    ELSE LET shorter == StringsUpTo(n - 1)
         IN  shorter \cup {Append(s, c) : s \in {t \in shorter : Len(t) = n - 1}, c \in NameChars}

Names == StringsUpTo(MaxNameLen)

(***************************************************************************)
(* JSON values the handlers read unchecked.                                 *)
(***************************************************************************)
Undefined == [t |-> "undefined"]

NaN == [t |-> "NaN"]

Num(n) == [t |-> "number", v |-> n]

Str(s) == [t |-> "string", v |-> s]

Arr(a) == [t |-> "array", v |-> a]

Obj(o) == [t |-> "object", v |-> o]

NotJSON == [json |-> FALSE]

Json(v) == [json |-> TRUE, v |-> v]

\* a + b, for numbers and undefined
Plus(a, b) == IF a.t = "number" /\ b.t = "number" THEN Num(a.v + b.v) ELSE NaN

\* The characters a template literal renders a value with
String(value) ==
    CASE value.t = "number" -> Digits(value.v)
      [] value.t = "undefined" -> <<"u", "n", "d", "e", "f", "i", "n", "e", "d">>
      [] value.t = "NaN" -> <<"N", "a", "N">>

(***************************************************************************)
(* The upstream API.                                                        *)
(***************************************************************************)
Url(endpoint, arg) == [endpoint |-> endpoint, arg |-> arg]

NetworkFailure == [kind |-> "network"]

Http(status, body) == [kind |-> "http", status |-> status, body |-> body]

\* Response.ok
ok(response) == response.status \in 200..299

ErrorStatuses == {404, 500}

BaseStats == <<35, 55, 40, 50, 50, 90, 10>>

StatsLengths == {5, 6, 7}

\* A stats array of n entries
Stats(n) == [i \in 1..n |-> [base_stat |-> Num(BaseStats[i])]]

PokemonBody(slug, id, species, stats) ==
    Json([id |-> id, name |-> Str(slug), height |-> Num(4), weight |-> Num(65),
          types |-> << <<"a">>, <<"b">> >>,
          species |-> species,
          stats |-> stats])

SpeciesRef(slug) == Obj([url |-> Url("pokemon-species", slug)])

\* The bodies GET /pokemon/{slug} may carry: the documented shape, a stats
\* array of another length, a body lacking fields, and a body that is no JSON.
PokemonBodies(slug) ==
    {PokemonBody(slug, Num(25), SpeciesRef(slug), Stats(n)) : n \in StatsLengths}
        \cup {PokemonBody(slug, Undefined, Undefined,
                          [Stats(6) EXCEPT ![1] = [base_stat |-> Undefined]]),
              NotJSON}

\* The i-th member of an upstream listing, and the URL of its detail page.
MemberName(i) == <<"m">> \o Digits(i)

MemberUrl(i) ==
    <<"https:", "/", "/", "pokeapi.co", "/", "api", "/", "v2", "/", "pokemon", "/">>
        \o Digits(i) \o <<"/">>

\* The bodies GET /type/{type} may carry: a listing of n members, a body
\* without the listing, no JSON.
TypeBodies ==
    {Json([pokemon |-> Arr([i \in 1..n |->
              [pokemon |-> [name |-> Str(MemberName(i)), url |-> MemberUrl(i)]]])]) : n \in 0..MaxList}
        \cup {Json([pokemon |-> Undefined]), NotJSON}

GenerationBodies ==
    {Json([pokemon_species |-> Arr([i \in 1..n |->
              [name |-> Str(MemberName(i)), url |-> MemberUrl(i)]])]) : n \in 0..MaxList}
        \cup {Json([pokemon_species |-> Undefined]), NotJSON}

SpeciesNames == {<<"a">>, <<"b">>}

Node(name, evolves_to) == [species |-> [name |-> name], evolves_to |-> evolves_to]

\* The evolution trees of exactly n nodes, and the sequences of trees
\* (a node's evolves_to) of n nodes in all.
RECURSIVE TreesOfSize(_), ForestsOfSize(_)
TreesOfSize(n) ==
    {Node(name, Arr(kids)) : name \in SpeciesNames, kids \in ForestsOfSize(n - 1)}

ForestsOfSize(n) ==
    IF n = 0 THEN {<<>>}
    ELSE UNION {{<<first>> \o rest : first \in TreesOfSize(k), rest \in ForestsOfSize(n - k)} :
                k \in 1..n}

Trees == UNION {TreesOfSize(n) : n \in 1..MaxNodes}

EvolutionChainRef(slug) == Obj([url |-> Url("evolution-chain", slug)])

\* The bodies of a species page: with the chain's reference, without, no JSON.
SpeciesBodies(slug) ==
    {Json([evolution_chain |-> EvolutionChainRef(slug)]), Json([evolution_chain |-> Undefined]),
     NotJSON}

\* The bodies of an evolution-chain page: a tree, a node without its
\* evolves_to listing, a body without the chain, no JSON.
EvolutionChainBodies ==
    {Json([chain |-> Obj(tree)]) : tree \in Trees}
        \cup {Json([chain |-> Obj(Node(<<"a">>, Undefined))]), Json([chain |-> Undefined]), NotJSON}

Bodies(url) ==
    CASE url.endpoint = "pokemon" -> PokemonBodies(url.arg)
      [] url.endpoint = "type" -> TypeBodies
      [] url.endpoint = "generation" -> GenerationBodies
      [] url.endpoint = "pokemon-species" -> SpeciesBodies(url.arg)
      [] url.endpoint = "evolution-chain" -> EvolutionChainBodies

\* What the upstream may answer a request with.
Responses(url) ==
    {NetworkFailure} \cup {Http(s, NotJSON) : s \in ErrorStatuses}
        \cup {Http(200, b) : b \in Bodies(url)}

(***************************************************************************)
(* Results and errors.                                                      *)
(***************************************************************************)
Error(message) == [message |-> message]

Return(result) == [kind |-> "return", result |-> result]

Throw(error) == [kind |-> "throw", error |-> error]

Fetch(url) == [kind |-> "fetch", url |-> url]

TextResult(text) == [content |-> <<[type |-> "text", text |-> text]>>, isError |-> FALSE]

ErrorResult(text) == [content |-> <<[type |-> "text", text |-> text]>>, isError |-> TRUE]

\* The catch block every handler ends with: the error becomes an
\* error-flagged text result, prefixed by the tool's failure context.
Catch(prefix, outcome) ==
    IF outcome.kind = "throw"
    THEN Return(ErrorResult(<<prefix>> \o outcome.error.message))
    ELSE outcome

\* fetch() rejects (network failure) and response.json() rejects (no JSON).
FetchFailed == Error(<<"fetch failed">>)

JsonSyntaxError == Error(<<"Unexpected token in JSON">>)

TypeError(property) == Error(<<"Cannot read properties of undefined (reading '", property, "')">>)

(***************************************************************************)
(* get_pokemon_pokedex_info (src/server.ts).                                *)
(***************************************************************************)
PokemonSchema_parse(body) ==
    IF /\ body.id.t = "number" /\ body.name.t = "string"
       /\ body.height.t = "number" /\ body.weight.t = "number"
    THEN [valid |-> TRUE,
          data |-> [id |-> body.id.v, name |-> body.name.v, height |-> body.height.v,
                    weight |-> body.weight.v, types |-> body.types]]
    ELSE [valid |-> FALSE]

ZodError == Error(<<"ZodError: invalid_type">>)

\* n / 10 rendered by a template literal, for an integer n >= 0
DivideByTen(n) ==
    IF n % 10 = 0 THEN Digits(n \div 10)
    ELSE Digits(n \div 10) \o <<".">> \o Digits(n % 10)

getPokemonInfoUrl(name) == Url("pokemon", replaceWhitespace(toLowerCase(name)))

getPokemonInfo(name, response) ==
    IF response.kind = "network" THEN Throw(FetchFailed)
    ELSE IF ~ok(response)
    THEN IF response.status = 404
         THEN Throw(Error(<<"Pok\\u00E9mon \"">> \o name \o <<"\"", " not found.">>))
         ELSE Throw(Error(<<"Failed to fetch Pok\\u00E9mon data: ">> \o Digits(response.status)))
    ELSE IF ~response.body.json THEN Throw(JsonSyntaxError)
    ELSE LET parsed == PokemonSchema_parse(response.body.v)
             pokemon == parsed.data
             types == join([i \in 1..Len(pokemon.types) |-> capitalize(pokemon.types[i])], <<", ">>)
         IN  IF ~parsed.valid THEN Throw(ZodError)
             ELSE Return(capitalize(pokemon.name) \o <<" (#">> \o Digits(pokemon.id) \o <<") - ">>
                         \o types \o <<" type, ">> \o DivideByTen(pokemon.height)
                         \o <<"m tall, ">> \o DivideByTen(pokemon.weight) \o <<"kg">>)

get_pokemon_pokedex_info(name, response) ==
    LET pokemon == getPokemonInfo(name, response)
    IN  Catch("Error getting pokemon info: ",
              IF pokemon.kind = "return" THEN Return(TextResult(pokemon.result)) ELSE pokemon)

(***************************************************************************)
(* The four-tool server.                                                    *)
(***************************************************************************)
\* Faulty variant of handleApiError: no branch of its own for status 404.
handleApiError_without_404(response, context) ==
    Throw(Error(<<"Failed to fetch ">> \o context \o <<": ">> \o Digits(response.status)))

handleApiError(response, context) ==
    IF response.status = 404
    THEN Throw(Error(context \o <<" not found.">>))
    ELSE Throw(Error(<<"Failed to fetch ">> \o context \o <<": ">> \o Digits(response.status)))

DefaultLimit == 20

\* A parameter's default: used when the argument is undefined.
OrDefault(arg, default) == IF arg.t = "undefined" THEN default ELSE arg.v

\* p.pokemon.url.split('/').slice(-2, -1)[0]
IdOfUrl(url) == slice(split(url, "/"), 0 - 2, 0 - 1)[1]

BulletLine(p) == <<"\\u2022 ">> \o p.name \o <<" (#">> \o p.id \o <<")">>

Types == {<<"a">>, <<"M", "a">>}

search_pokemon_by_type_url(type) == Url("type", toLowerCase(type))

search_pokemon_by_type(type, limitArg, response) ==
    LET limit == OrDefault(limitArg, DefaultLimit)
        typeData == response.body.v
        members == slice(typeData.pokemon.v, 0, limit)
        pokemon == [i \in 1..Len(members) |->
                      [name |-> capitalize(members[i].pokemon.name.v),
                       id |-> IdOfUrl(members[i].pokemon.url)]]
        pokemonList == join([i \in 1..Len(pokemon) |-> BulletLine(pokemon[i])], <<"\n">>)
    IN  Catch("Error searching Pokemon by type: ",
              IF response.kind = "network" THEN Throw(FetchFailed)
              ELSE IF ~ok(response)
              THEN handleApiError(response, <<"Type \"">> \o type \o <<"\"">>)
              ELSE IF ~response.body.json THEN Throw(JsonSyntaxError)
              ELSE IF typeData.pokemon.t # "array" THEN Throw(TypeError("slice"))
              ELSE IF \E i \in 1..Len(members) : members[i].pokemon.name.t # "string"
              THEN Throw(TypeError("charAt"))
              ELSE Return(TextResult(<<"Found ">> \o Digits(Len(pokemon)) \o <<" ">>
                                     \o capitalize(type) \o <<" type Pokemon:", "\n", "\n">>
                                     \o pokemonList)))

search_pokemon_by_generation_url(generation) == Url("generation", Digits(generation))

search_pokemon_by_generation(generation, limitArg, response) ==
    LET limit == OrDefault(limitArg, DefaultLimit)
        genData == response.body.v
        members == slice(genData.pokemon_species.v, 0, limit)
        pokemon == [i \in 1..Len(members) |->
                      [name |-> capitalize(members[i].name.v),
                       id |-> IdOfUrl(members[i].url)]]
        pokemonList == join([i \in 1..Len(pokemon) |-> BulletLine(pokemon[i])], <<"\n">>)
    IN  Catch("Error searching Pokemon by generation: ",
              IF response.kind = "network" THEN Throw(FetchFailed)
              ELSE IF ~ok(response)
              THEN handleApiError(response, <<"Generation ">> \o Digits(generation))
              ELSE IF ~response.body.json THEN Throw(JsonSyntaxError)
              ELSE IF genData.pokemon_species.t # "array" THEN Throw(TypeError("slice"))
              ELSE IF \E i \in 1..Len(members) : members[i].name.t # "string"
              THEN Throw(TypeError("charAt"))
              ELSE Return(TextResult(<<"Found ">> \o Digits(Len(pokemon))
                                     \o <<" Pokemon from Generation ">> \o Digits(generation)
                                     \o <<":", "\n", "\n">> \o pokemonList)))

\* Faulty variant of HasEvolutions: length > 1, so that an only child is dropped.
HasEvolutions_more_than_one(chain) ==
    chain.evolves_to.t = "array" /\ Len(chain.evolves_to.v) > 1

\* chain.evolves_to && chain.evolves_to.length > 0
HasEvolutions(chain) == chain.evolves_to.t = "array" /\ Len(chain.evolves_to.v) > 0

RECURSIVE parseEvolutionChain(_, _), parseEvolutions(_, _)
parseEvolutionChain(chain, level) ==
    LET indent == repeat(<<"  ">>, level)
        pokemonName == capitalize(chain.species.name)
        result == << indent \o <<"\\u2022 ">> \o pokemonName >>
    IN  IF HasEvolutions(chain)
        THEN result \o parseEvolutions(chain.evolves_to.v, level + 1)
        ELSE result

\* The loop over chain.evolves_to: the lines of each evolution, in order.
parseEvolutions(evolutions, level) ==
    IF evolutions = <<>> THEN <<>>
    ELSE parseEvolutionChain(Head(evolutions), level) \o parseEvolutions(Tail(evolutions), level)

get_pokemon_evolution_chain_url(name) == Url("pokemon", toLowerCase(name))

\* The context label of the stage-th upstream call.
EvolutionContext(name, stage) ==
    CASE stage = 1 -> <<"Pokemon \"">> \o name \o <<"\"">>
      [] stage = 2 -> <<"Species for \"">> \o name \o <<"\"">>
      [] stage = 3 -> <<"Evolution chain for \"">> \o name \o <<"\"">>

\* The handler from the response to its stage-th call on.
get_pokemon_evolution_chain(name, stage, response) ==
    LET json == response.body.v
        evolutionTree == join(parseEvolutionChain(json.chain.v, 0), <<"\n">>)
    IN  Catch("Error getting evolution chain: ",
              IF response.kind = "network" THEN Throw(FetchFailed)
              ELSE IF ~ok(response) THEN handleApiError(response, EvolutionContext(name, stage))
              ELSE IF ~response.body.json THEN Throw(JsonSyntaxError)
              ELSE IF stage = 1
              THEN IF json.species.t = "undefined" THEN Throw(TypeError("url"))
                   ELSE Fetch(json.species.v.url)
              ELSE IF stage = 2
              THEN IF json.evolution_chain.t = "undefined" THEN Throw(TypeError("url"))
                   ELSE Fetch(json.evolution_chain.v.url)
              ELSE IF json.chain.t = "undefined" THEN Throw(TypeError("species"))
              ELSE Return(TextResult(<<"Evolution chain for ">> \o capitalize(name)
                                     \o <<":", "\n", "\n">> \o evolutionTree)))

\* inputSchema of compare_pokemon: z.array(z.string()).min(2).max(6)
MinPokemon == 2

MaxPokemon == 6

\* Faulty variant of compare_pokemon_schema: min(1).
compare_pokemon_schema_min_1(pokemon) == Len(pokemon) >= 1 /\ Len(pokemon) <= MaxPokemon

compare_pokemon_schema(pokemon) == Len(pokemon) >= MinPokemon /\ Len(pokemon) <= MaxPokemon

compare_pokemon_url(name) == Url("pokemon", toLowerCase(name))

\* data.stats.reduce((sum, stat) => sum + stat.base_stat, 0)
RECURSIVE reduceBaseStat(_, _)
reduceBaseStat(stats, sum) ==
    IF stats = <<>> THEN sum ELSE reduceBaseStat(Tail(stats), Plus(sum, Head(stats).base_stat))

\* The entry the loop pushes to pokemonData for one fetched body.
ComparisonRow(data) ==
    [name |-> capitalize(data.name.v),
     id |-> data.id,
     types |-> join([i \in 1..Len(data.types) |-> capitalize(data.types[i])], <<",", " ">>),
     stats |-> [hp |-> data.stats[1].base_stat,
                attack |-> data.stats[2].base_stat,
                defense |-> data.stats[3].base_stat,
                specialAttack |-> data.stats[4].base_stat,
                specialDefense |-> data.stats[5].base_stat,
                speed |-> data.stats[6].base_stat],
     total |-> reduceBaseStat(data.stats, Num(0))]

\* Whether the loop body for this response reaches pokemonData.push.
Pushes(response) ==
    /\ response.kind = "http"
    /\ ok(response)
    /\ response.body.json
    /\ Len(response.body.v.stats) >= 6

ComparisonHeader ==
    padEnd(<<"N", "a", "m", "e">>, 15) \o padEnd(<<"T", "y", "p", "e">>, 20)
        \o padEnd(<<"H", "P">>, 5) \o padEnd(<<"A", "T", "K">>, 5) \o padEnd(<<"D", "E", "F">>, 5)
        \o padEnd(<<"S", "P", "A">>, 5) \o padEnd(<<"S", "P", "D">>, 5) \o padEnd(<<"S", "P", "E">>, 5)
        \o <<"T", "o", "t", "a", "l", "\n">>

ComparisonLine(p) ==
    padEnd(p.name, 15) \o padEnd(p.types, 20)
        \o padEnd(String(p.stats.hp), 5) \o padEnd(String(p.stats.attack), 5)
        \o padEnd(String(p.stats.defense), 5) \o padEnd(String(p.stats.specialAttack), 5)
        \o padEnd(String(p.stats.specialDefense), 5) \o padEnd(String(p.stats.speed), 5)
        \o String(p.total) \o <<"\n">>

RECURSIVE ComparisonLines(_)
ComparisonLines(data) ==
    IF data = <<>> THEN <<>> ELSE ComparisonLine(Head(data)) \o ComparisonLines(Tail(data))

ComparisonTable(data) ==
    <<"Pokemon Comparison:", "\n", "\n">> \o ComparisonHeader
        \o <<"--------------------------------------------------------------------------------", "\n">>
        \o ComparisonLines(data)

\* Faulty variant of compare_pokemon: a non-2xx status does not end the loop.
compare_pokemon_no_abort(pokemon, data, i, response) ==
    Catch("Error comparing Pokemon: ",
          IF response.kind = "network" THEN Throw(FetchFailed)
          ELSE IF ~ok(response)
          THEN IF i < Len(pokemon) THEN Fetch(compare_pokemon_url(pokemon[i + 1]))
               ELSE Return(TextResult(ComparisonTable(data)))
          ELSE IF ~response.body.json THEN Throw(JsonSyntaxError)
          ELSE IF ~Pushes(response) THEN Throw(TypeError("base_stat"))
          ELSE IF i < Len(pokemon) THEN Fetch(compare_pokemon_url(pokemon[i + 1]))
          ELSE Return(TextResult(ComparisonTable(Append(data, ComparisonRow(response.body.v))))))

\* The handler from the response to its i-th call on; data is pokemonData
\* before the response.
compare_pokemon(pokemon, data, i, response) ==
    Catch("Error comparing Pokemon: ",
          IF response.kind = "network" THEN Throw(FetchFailed)
          ELSE IF ~ok(response)
          THEN handleApiError(response, <<"Pokemon \"">> \o pokemon[i] \o <<"\"">>)
          ELSE IF ~response.body.json THEN Throw(JsonSyntaxError)
          ELSE IF ~Pushes(response) THEN Throw(TypeError("base_stat"))
          ELSE IF i < Len(pokemon) THEN Fetch(compare_pokemon_url(pokemon[i + 1]))
          ELSE Return(TextResult(ComparisonTable(Append(data, ComparisonRow(response.body.v))))))

ComparePool == << <<"a">>, <<"M", " ", "a">> >>

\* The names lists: n names, taken in turn from the pool.
NameList(start, n) == [i \in 1..n |-> ComparePool[((start + i) % Len(ComparePool)) + 1]]

NameLists == {NameList(start, n) : start \in 1..Len(ComparePool), n \in 0..MaxNames}

\* The limits the input schema z.number().optional() accepts (integers here).
Limits == {Undefined} \cup {Num(l) : l \in (0 - MaxNegLimit)..MaxLimit}

(***************************************************************************)
(* The state machine: one invocation at a time.                             *)
(***************************************************************************)
Init ==
    /\ tool = "none"
    /\ args = <<>>
    /\ pc = "idle"
    /\ calls = <<>>
    /\ resps = <<>>
    /\ pokemonData = <<>>
    /\ returned = <<>>
    /\ escaped = FALSE

\* The handler runs to its first fetch.
Begin(t, a, url) ==
    /\ pc = "idle"
    /\ tool' = t
    /\ args' = a
    /\ pc' = "await"
    /\ calls' = <<url>>
    /\ UNCHANGED <<resps, pokemonData, returned, escaped>>

\* The handler runs on from the response to its next fetch, its return, or
\* an error nothing caught.
Continue(response, outcome, data) ==
    /\ resps' = Append(resps, response)
    /\ pokemonData' = data
    /\ calls' = IF outcome.kind = "fetch" THEN Append(calls, outcome.url) ELSE calls
    /\ returned' = IF outcome.kind = "return" THEN Append(returned, outcome.result) ELSE returned
    /\ escaped' = (outcome.kind = "throw")
    /\ pc' = IF outcome.kind = "fetch" THEN "await" ELSE "done"
    /\ UNCHANGED <<tool, args>>

InvokePokedexInfo ==
    \E name \in Names :
        Begin("get_pokemon_pokedex_info", [name |-> name], getPokemonInfoUrl(name))

PokedexInfoResponse ==
    /\ pc = "await"
    /\ tool = "get_pokemon_pokedex_info"
    /\ \E response \in Responses(calls[Len(calls)]) :
          Continue(response, get_pokemon_pokedex_info(args.name, response), pokemonData)

InvokeSearchByType ==
    \E type \in Types, limit \in Limits :
        Begin("search_pokemon_by_type", [type |-> type, limit |-> limit],
              search_pokemon_by_type_url(type))

SearchByTypeResponse ==
    /\ pc = "await"
    /\ tool = "search_pokemon_by_type"
    /\ \E response \in Responses(calls[Len(calls)]) :
          Continue(response, search_pokemon_by_type(args.type, args.limit, response), pokemonData)

InvokeSearchByGeneration ==
    \E generation \in 1..MaxGeneration, limit \in Limits :
        Begin("search_pokemon_by_generation", [generation |-> generation, limit |-> limit],
              search_pokemon_by_generation_url(generation))

SearchByGenerationResponse ==
    /\ pc = "await"
    /\ tool = "search_pokemon_by_generation"
    /\ \E response \in Responses(calls[Len(calls)]) :
          Continue(response,
                   search_pokemon_by_generation(args.generation, args.limit, response),
                   pokemonData)

InvokeEvolutionChain ==
    \E name \in Names :
        Begin("get_pokemon_evolution_chain", [name |-> name],
              get_pokemon_evolution_chain_url(name))

EvolutionChainResponse ==
    /\ pc = "await"
    /\ tool = "get_pokemon_evolution_chain"
    /\ \E response \in Responses(calls[Len(calls)]) :
          Continue(response, get_pokemon_evolution_chain(args.name, Len(calls), response),
                   pokemonData)

\* The arguments fail the input schema: the handler is not called.
Reject(t, a) ==
    /\ pc = "idle"
    /\ tool' = t
    /\ args' = a
    /\ pc' = "rejected"
    /\ UNCHANGED <<calls, resps, pokemonData, returned, escaped>>

InvokeCompare ==
    \E pokemon \in NameLists :
        IF compare_pokemon_schema(pokemon)
        THEN Begin("compare_pokemon", [pokemon |-> pokemon], compare_pokemon_url(pokemon[1]))
        ELSE Reject("compare_pokemon", [pokemon |-> pokemon])

CompareResponse ==
    /\ pc = "await"
    /\ tool = "compare_pokemon"
    /\ \E response \in Responses(calls[Len(calls)]) :
          Continue(response, compare_pokemon(args.pokemon, pokemonData, Len(calls), response),
                   IF Pushes(response)
                   THEN Append(pokemonData, ComparisonRow(response.body.v))
                   ELSE pokemonData)

\* The result has gone back to the host; the server waits for the next call.
Finish ==
    /\ pc \in {"done", "rejected"}
    /\ tool' = "none"
    /\ args' = <<>>
    /\ pc' = "idle"
    /\ calls' = <<>>
    /\ resps' = <<>>
    /\ pokemonData' = <<>>
    /\ returned' = <<>>
    /\ escaped' = FALSE

Next ==
    \/ InvokePokedexInfo
    \/ PokedexInfoResponse
    \/ InvokeSearchByType
    \/ SearchByTypeResponse
    \/ InvokeSearchByGeneration
    \/ SearchByGenerationResponse
    \/ InvokeEvolutionChain
    \/ EvolutionChainResponse
    \/ InvokeCompare
    \/ CompareResponse
    \/ Finish

Spec == Init /\ [][Next]_vars

(***************************************************************************)
(* Vocabulary of the properties.                                            *)
(***************************************************************************)
Done == pc = "done"

Result == returned[1]

Text == returned[1].content[1].text

Contains(text, sub) ==
    \E k \in 0..(Len(text) - Len(sub)) : SubSeq(text, k + 1, k + Len(sub)) = sub

Lines(text) == split(text, "\n")

Bullet == "\\u2022 "

\* What the specification calls the slug of a name.
Slug(name) == replaceWhitespace(toLowerCase(name))

RECURSIVE WellFormedNode(_)
WellFormedNode(node) ==
    /\ node.evolves_to.t = "array"
    /\ \A i \in 1..Len(node.evolves_to.v) : WellFormedNode(node.evolves_to.v[i])

\* The shape the stage-th upstream call of a tool is documented to answer with.
WellFormed(t, stage, body) ==
    /\ body.json
    /\ CASE t = "get_pokemon_pokedex_info" ->
                /\ body.v.id.t = "number"
                /\ body.v.name.t = "string"
         [] t = "search_pokemon_by_type" ->
                /\ body.v.pokemon.t = "array"
                /\ \A i \in 1..Len(body.v.pokemon.v) : body.v.pokemon.v[i].pokemon.name.t = "string"
         [] t = "search_pokemon_by_generation" ->
                /\ body.v.pokemon_species.t = "array"
                /\ \A i \in 1..Len(body.v.pokemon_species.v) :
                      body.v.pokemon_species.v[i].name.t = "string"
         [] t = "get_pokemon_evolution_chain" /\ stage = 1 -> body.v.species.t = "object"
         [] t = "get_pokemon_evolution_chain" /\ stage = 2 -> body.v.evolution_chain.t = "object"
         [] t = "get_pokemon_evolution_chain" /\ stage = 3 ->
                body.v.chain.t = "object" /\ WellFormedNode(body.v.chain.v)
         [] t = "compare_pokemon" ->
                /\ body.v.id.t = "number"
                /\ body.v.name.t = "string"
                /\ Len(body.v.stats) = 6
                /\ \A i \in 1..Len(body.v.stats) : body.v.stats[i].base_stat.t = "number"

NonOk(response) == response.kind = "http" /\ ~ok(response)

\* The i-th upstream call of the invocation did not answer 2xx with a
\* well-formed body.
StepFailed(i) ==
    \/ resps[i].kind = "network"
    \/ NonOk(resps[i])
    \/ ~WellFormed(tool, i, resps[i].body)

(***************************************************************************)
(* C1.  Every handler, whatever each upstream call answers, returns exactly *)
(* one text result and lets no exception escape, and the result's error     *)
(* flag is set if and only if some upstream call of the invocation failed   *)
(* (network failure, non-2xx status, or a 2xx body that is malformed).      *)
(***************************************************************************)
C1_OneResultFlaggedIffFailed ==
    Done =>
        /\ Len(returned) = 1
        /\ ~escaped
        /\ Len(Result.content) = 1
        /\ Result.content[1].type = "text"
        /\ Result.isError <=> \E i \in 1..Len(resps) : StepFailed(i)

\* The part of C1 that does not depend on how a malformed body is told: one
\* text result, nothing escapes, and a network failure, a non-2xx status or
\* a body that is no JSON always sets the error flag.
OneResultNothingEscapes ==
    Done =>
        /\ Len(returned) = 1
        /\ ~escaped
        /\ Len(Result.content) = 1
        /\ Result.content[1].type = "text"
        /\ (\E i \in 1..Len(resps) :
               resps[i].kind = "network" \/ NonOk(resps[i]) \/ ~resps[i].body.json)
              => Result.isError

(***************************************************************************)
(* C2.  When an upstream call of any tool answers 404, the result has the   *)
(* error flag set and its message contains "not found" and the lookup term  *)
(* as the caller gave it (the name, the type, the generation number).       *)
(***************************************************************************)
LookupTerm ==
    CASE tool = "get_pokemon_pokedex_info" -> args.name
      [] tool = "get_pokemon_evolution_chain" -> args.name
      [] tool = "search_pokemon_by_type" -> args.type
      [] tool = "search_pokemon_by_generation" -> Digits(args.generation)
      [] tool = "compare_pokemon" -> args.pokemon[Len(resps)]

Answered404 == \E i \in 1..Len(resps) : resps[i].kind = "http" /\ resps[i].status = 404

C2_NotFoundNamesTheTerm ==
    Answered404 =>
        /\ Done
        /\ Len(returned) = 1
        /\ Result.isError
        /\ Contains(Text, <<" not found.">>)
        /\ Contains(Text, LookupTerm)

C2_Witness ==
    /\ Done
    /\ Answered404
    /\ tool = "compare_pokemon"
    /\ Len(resps) = 2
    /\ LookupTerm # Slug(LookupTerm)
    /\ Contains(Text, LookupTerm)

(***************************************************************************)
(* C3.  compare_pokemon fetches the names one at a time in the caller's     *)
(* order; when the call for the i-th name fails (network failure or non-2xx *)
(* status) no call is issued for a later name, and the result is the        *)
(* error-flagged message of that call's error, with no table row.           *)
(***************************************************************************)
CallFailed(response) == response.kind = "network" \/ NonOk(response)

\* The message the failed call for a name is translated to.
TranslatedError(name, response) ==
    IF response.kind = "network" THEN <<"fetch failed">>
    ELSE IF response.status = 404 THEN <<"Pokemon \"">> \o name \o <<"\"", " not found.">>
    ELSE <<"Failed to fetch ", "Pokemon \"">> \o name \o <<"\"", ": ">> \o Digits(response.status)

StageLabel(name, stage) ==
    CASE stage = 1 -> <<"Pokemon \"">> \o name \o <<"\"">>
      [] stage = 2 -> <<"Species for \"">> \o name \o <<"\"">>
      [] stage = 3 -> <<"Evolution chain for \"">> \o name \o <<"\"">>

StageEndpoints == <<"pokemon", "pokemon-species", "evolution-chain">>

StageFailed(i) ==
    /\ resps[i].kind = "http"
    /\ NonOk(resps[i]) \/ ~WellFormed("get_pokemon_evolution_chain", i, resps[i].body)

C4_StageOrderAndLabel ==
    tool = "get_pokemon_evolution_chain" =>
        /\ Len(calls) <= 3
        /\ Len(calls) <= Len(resps) + 1
        /\ \A i \in 1..Len(calls) : calls[i].endpoint = StageEndpoints[i]
        /\ \A i \in 1..Len(resps) :
              StageFailed(i) =>
                  /\ Len(calls) = i
                  /\ Done
                  /\ Result.isError
                  /\ \A k \in 1..3 : Contains(Text, StageLabel(args.name, k)) <=> k = i

\* The part of C4 that holds: the order of the stages, and the label of the
\* stage whose call answered a non-2xx status.
StageOrderAndStatusLabel ==
    tool = "get_pokemon_evolution_chain" =>
        /\ Len(calls) <= 3
        /\ Len(calls) <= Len(resps) + 1
        /\ \A i \in 1..Len(calls) : calls[i].endpoint = StageEndpoints[i]
        /\ \A i \in 1..Len(resps) :
              NonOk(resps[i]) =>
                  /\ Len(calls) = i
                  /\ Done
                  /\ Result.isError
                  /\ \A k \in 1..3 : Contains(Text, StageLabel(args.name, k)) <=> k = i

(***************************************************************************)
(* C5.  When every fetch of compare_pokemon succeeds, the result is a table *)
(* with one data row per name, in the caller's order, and in every row the  *)
(* Total column is the sum of the row's six stat columns, whatever the      *)
(* length of the stats array the upstream returned.                         *)
(***************************************************************************)
\* A line with each padding element written out as its spaces
RECURSIVE Characters(_)
Characters(line) ==
    IF line = <<>> THEN <<>>
    ELSE IF \E k \in 1..Len(Spaces) : Spaces[k] = Head(line)
         THEN repeat(<<" ">>, CHOOSE k \in 1..Len(Spaces) : Spaces[k] = Head(line))
                  \o Characters(Tail(line))
         ELSE <<Head(line)>> \o Characters(Tail(line))

RECURSIVE TrimEnd(_)
TrimEnd(str) ==
    IF str # <<>> /\ str[Len(str)] = " " THEN TrimEnd(SubSeq(str, 1, Len(str) - 1)) ELSE str

IsNumeral(str) == str # <<>> /\ \A i \in 1..Len(str) : \E d \in 1..10 : DigitChars[d] = str[i]

RECURSIVE ParseNat(_)
ParseNat(str) ==
    IF str = <<>> THEN 0
    ELSE 10 * ParseNat(SubSeq(str, 1, Len(str) - 1))
             + ((CHOOSE d \in 1..10 : DigitChars[d] = str[Len(str)]) - 1)

\* The data rows of a comparison table: the lines after the title, the empty
\* line, the header and the separator, without the empty line that ends it.
TableRows(text) ==
    LET lines == Lines(text)
    IN  [i \in 1..(Len(lines) - 5) |-> Characters(lines[i + 4])]

NameColumn(row) == TrimEnd(SubSeq(row, 1, 15))

\* The k-th of the six stat columns (HP, ATK, DEF, SPA, SPD, SPE)
StatColumn(row, k) == TrimEnd(SubSeq(row, 31 + 5 * k, 35 + 5 * k))

TotalColumn(row) == SubSeq(row, 66, Len(row))

\* A fetch that succeeded: 2xx, with a body that names the Pokemon and has
\* the six stats the table shows (and maybe more).
FetchSucceeded(response) ==
    /\ response.kind = "http"
    /\ ok(response)
    /\ response.body.json
    /\ response.body.v.name.t = "string"
    /\ Len(response.body.v.stats) >= 6
    /\ \A i \in 1..Len(response.body.v.stats) : response.body.v.stats[i].base_stat.t = "number"

RowTotalIsSumOfColumns(row) ==
    /\ \A k \in 1..6 : IsNumeral(StatColumn(row, k))
    /\ IsNumeral(TotalColumn(row))
    /\ ParseNat(TotalColumn(row))
           = ParseNat(StatColumn(row, 1)) + ParseNat(StatColumn(row, 2))
                 + ParseNat(StatColumn(row, 3)) + ParseNat(StatColumn(row, 4))
                 + ParseNat(StatColumn(row, 5)) + ParseNat(StatColumn(row, 6))

C5_RowPerNameTotalIsSum ==
    (/\ Done
     /\ tool = "compare_pokemon"
     /\ \A i \in 1..Len(resps) : FetchSucceeded(resps[i]))
        => /\ ~Result.isError
           /\ Len(TableRows(Text)) = Len(args.pokemon)
           /\ \A i \in 1..Len(args.pokemon) :
                 /\ NameColumn(TableRows(Text)[i]) = capitalize(resps[i].body.v.name.v)
                 /\ RowTotalIsSumOfColumns(TableRows(Text)[i])

\* The part of C5 that holds: with stats arrays of exactly six entries.
RowPerNameTotalIsSumOfSix ==
    (/\ Done
     /\ tool = "compare_pokemon"
     /\ \A i \in 1..Len(resps) : FetchSucceeded(resps[i]) /\ Len(resps[i].body.v.stats) = 6)
        => /\ ~Result.isError
           /\ Len(TableRows(Text)) = Len(args.pokemon)
           /\ \A i \in 1..Len(args.pokemon) :
                 /\ NameColumn(TableRows(Text)[i]) = capitalize(resps[i].body.v.name.v)
                 /\ RowTotalIsSumOfColumns(TableRows(Text)[i])

(***************************************************************************)
(* C6.  A search by type or by generation with limit L (20 when omitted)    *)
(* over an upstream listing of n members lists L entries when n >= L and    *)
(* all n otherwise, never more than L: the first entries of the listing, in *)
(* its order; the count of the header line is the number of bulleted lines. *)
(***************************************************************************)
IsSearch == tool \in {"search_pokemon_by_type", "search_pokemon_by_generation"}

\* The names of the members of the upstream listing, in its order
ListedNames ==
    IF tool = "search_pokemon_by_type"
    THEN [i \in 1..Len(resps[1].body.v.pokemon.v) |-> resps[1].body.v.pokemon.v[i].pokemon.name.v]
    ELSE [i \in 1..Len(resps[1].body.v.pokemon_species.v) |->
             resps[1].body.v.pokemon_species.v[i].name.v]

SearchAnswered ==
    /\ IsSearch
    /\ Done
    /\ resps[1].kind = "http"
    /\ ok(resps[1])
    /\ WellFormed(tool, 1, resps[1].body)

RequestedLimit == IF args.limit.t = "undefined" THEN 20 ELSE args.limit.v

IsBulletLine(line) == line # <<>> /\ line[1] = Bullet

BulletLines == SelectSeq(Lines(Text), IsBulletLine)

\* The digits that follow "Found " in the header line
RECURSIVE LeadingNumeral(_)
LeadingNumeral(str) ==
    IF str # <<>> /\ IsNumeral(<<Head(str)>>)
    THEN <<Head(str)>> \o LeadingNumeral(Tail(str))
    ELSE <<>>

HeaderCount == ParseNat(LeadingNumeral(Tail(Text)))

ListsFirstEntries(limit) ==
    /\ ~Result.isError
    /\ Len(BulletLines) = (IF Len(ListedNames) >= limit THEN limit ELSE Len(ListedNames))
    /\ Len(BulletLines) <= limit
    /\ \A i \in 1..Len(BulletLines) :
          BulletLines[i] = <<Bullet>> \o capitalize(ListedNames[i]) \o <<" (#">> \o Digits(i) \o <<")">>
    /\ Text[1] = "Found "
    /\ HeaderCount = Len(BulletLines)

\* C6 as stated: for every limit the input schema accepts.
C6_ListsFirstEntriesAnyLimit == SearchAnswered => ListsFirstEntries(RequestedLimit)

\* C6 as amended: for every limit that is a non-negative integer (20 when
\* omitted).
C6_ListsFirstEntries ==
    (SearchAnswered /\ RequestedLimit >= 0) => ListsFirstEntries(RequestedLimit)

C6_Witness ==
    /\ SearchAnswered
    /\ args.limit.t = "undefined"
    /\ Len(ListedNames) > 20
    /\ Len(BulletLines) = 20

(***************************************************************************)
(* C7.  Every tool that looks a Pokemon up by name (get_pokemon_pokedex_    *)
(* info, the first call of get_pokemon_evolution_chain, each call of        *)
(* compare_pokemon) requests /pokemon/{slug} with the caller's name         *)
(* lowercased and every run of whitespace replaced by one hyphen.           *)
(***************************************************************************)
\* The caller's name the i-th call looks up, in the tools that look up by name
LookedUpName(i) == IF tool = "compare_pokemon" THEN args.pokemon[i] ELSE args.name

C7_NameIsNormalized ==
    \A i \in 1..Len(calls) :
        calls[i].endpoint = "pokemon" => calls[i].arg = Slug(LookedUpName(i))

\* The part of C7 that holds: the single-tool server's lookup.
PokedexInfoNameIsNormalized ==
    tool = "get_pokemon_pokedex_info" =>
        \A i \in 1..Len(calls) : calls[i] = Url("pokemon", Slug(args.name))

(***************************************************************************)
(* C8.  compare_pokemon with fewer than 2 or more than 6 names fails        *)
(* validation before any upstream call is issued; lists of 2 to 6 names     *)
(* pass validation.                                                         *)
(***************************************************************************)
C8_ListSizeValidatedFirst ==
    tool = "compare_pokemon" =>
        IF Len(args.pokemon) < 2 \/ Len(args.pokemon) > 6
        THEN pc = "rejected" /\ calls = <<>> /\ resps = <<>> /\ returned = <<>>
        ELSE pc # "rejected" /\ Len(calls) >= 1

C8_Witness ==
    /\ tool = "compare_pokemon"
    /\ Len(args.pokemon) = 7
    /\ pc = "rejected"
    /\ calls = <<>>

(***************************************************************************)
(* C9.  get_pokemon_pokedex_info with a name that is empty after            *)
(* normalization returns an error-flagged result and issues no upstream     *)
(* call.                                                                    *)
(***************************************************************************)
C9_EmptyNameIssuesNoCall ==
    (tool = "get_pokemon_pokedex_info" /\ Slug(args.name) = <<>>) =>
        /\ calls = <<>>
        /\ Done => Result.isError

(***************************************************************************)
(* C10.  parseEvolutionChain renders one line per node of the tree, in      *)
(* depth-first pre-order with the children in evolves_to order; the root's  *)
(* line has no indent and every other line is indented one step (two        *)
(* spaces) deeper than the line of its parent.                              *)
(***************************************************************************)
\* A node is named by its path: the child indices from the root down.
RECURSIVE PathsOf(_)
PathsOf(node) ==
    {<<>>} \cup UNION {{<<i>> \o path : path \in PathsOf(node.evolves_to.v[i])} :
                       i \in 1..Len(node.evolves_to.v)}

RECURSIVE NodeAt(_, _)
NodeAt(node, path) ==
    IF path = <<>> THEN node ELSE NodeAt(node.evolves_to.v[Head(path)], Tail(path))

\* p comes before q in pre-order: p is an ancestor of q, or p branches off
\* to an earlier child where the two paths part.
Precedes(p, q) ==
    \/ Len(p) < Len(q) /\ SubSeq(q, 1, Len(p)) = p
    \/ \E k \in 1..Len(p) :
          /\ k <= Len(q)
          /\ SubSeq(p, 1, k - 1) = SubSeq(q, 1, k - 1)
          /\ p[k] < q[k]

PreOrderPosition(tree, path) == 1 + Cardinality({p \in PathsOf(tree) : Precedes(p, path)})

\* The lines of the rendered tree: those after the header and the empty line
TreeLines == LET lines == Lines(Text) IN SubSeq(lines, 3, Len(lines))

ChainRendered ==
    /\ tool = "get_pokemon_evolution_chain"
    /\ Done
    /\ Len(resps) = 3
    /\ resps[3].kind = "http"
    /\ ok(resps[3])
    /\ WellFormed(tool, 3, resps[3].body)

RenderedTree == resps[3].body.v.chain.v

C10_OneLinePerNodePreOrder ==
    ChainRendered =>
        /\ ~Result.isError
        /\ Len(TreeLines) = Cardinality(PathsOf(RenderedTree))
        /\ \A path \in PathsOf(RenderedTree) :
              TreeLines[PreOrderPosition(RenderedTree, path)]
                  = repeat(<<"  ">>, Len(path)) \o <<Bullet>>
                        \o capitalize(NodeAt(RenderedTree, path).species.name)

C10_Witness ==
    /\ ChainRendered
    /\ PathsOf(RenderedTree) = {<<>>, <<1>>, <<1, 1>>}
    /\ Len(TreeLines) = 3
    /\ TreeLines[3][1] = "  "
    /\ TreeLines[3][2] = "  "
    /\ TreeLines[3][3] = Bullet
====
